---- MODULE Spec2Model ----
(***************************************************************************)
(* A model of cli.h: the argument classifier cli_parse, its two storage    *)
(* strategies for CliArray (heap buffers that double, and a caller's arena *)
(* shared through one cursor), cli_parse_noheap and cli_free.              *)
(*                                                                         *)
(* A token is a C string, modelled as the sequence of its characters; the  *)
(* terminating NUL is the character read at index Len(token).              *)
(***************************************************************************)
EXTENDS Integers, Sequences, FiniteSets

(***************************************************************************)
(* Bounds of the model.                                                    *)
(***************************************************************************)
\* Longest argument list (argc - 1) enumerated over the whole token alphabet.
MaxArgs == 4
\* Longest argument list enumerated over the two-token alphabet LongTokens;
\* long enough for a heap list to grow twice (5 -> 10 -> 20).
MaxLongArgs == 11
\* Most appends made to one list by the growth specification GrowSpec.
MaxAppends == 41000

(***************************************************************************)
(* Program constants.                                                      *)
(***************************************************************************)
CLI_DEFAULT_ARR_CAP == 5
\* unsigned short: length and capacity are 16 bits wide.
USHRT_RANGE == 65536

NUL == "NUL"

CliErrorOk == "CliErrorOk"
CliErrorUser == "CliErrorUser"
CliErrorFatal == "CliErrorFatal"

(***************************************************************************)
(* Pointers.  A pointer is null, the invalid sentinel, an indeterminate    *)
(* value (never assigned), a slot of the caller's arena, or a heap block.  *)
(***************************************************************************)
NULL == [kind |-> "null", off |-> 0]
CLI_INVALID_PTR == [kind |-> "invalid", off |-> 0]
Indeterminate == [kind |-> "indeterminate", off |-> 0]
StackPtr(i) == [kind |-> "stack", off |-> i]
HeapPtr(b) == [kind |-> "heap", off |-> b]

\* The content of a buffer slot that was never written.
Unwritten == <<"unwritten">>

(***************************************************************************)
(* Tokens and input vectors.                                               *)
(***************************************************************************)
Prog == <<"p">>
Empty == <<>>
Dash == <<"-">>
DashDash == <<"-", "-">>
OptA == <<"-", "a">>
LongA == <<"-", "-", "a">>
PosA == <<"a">>

Tokens == {Empty, Dash, DashDash, OptA, LongA, PosA}
LongTokens == {OptA, PosA}

\* The tokens of the documented examples.
T_v == <<"-", "v">>
T_verbose == <<"-", "-", "v", "e", "r", "b", "o", "s", "e">>
T_flag == <<"-", "-", "f", "l", "a", "g">>
T_build == <<"b", "u", "i", "l", "d">>
T_release == <<"-", "-", "r", "e", "l", "e", "a", "s", "e">>
T_j == <<"-", "j">>
T_4 == <<"4">>
T_b == <<"b">>

ExampleOptions == <<Prog, T_v, T_verbose>>
ExampleSeparator == <<Prog, DashDash, T_flag>>
ExamplePositionalLate == <<Prog, T_build, T_release, T_j, T_4>>
ExampleDoubleDash == <<Prog, PosA, DashDash, T_b>>
Examples == {ExampleOptions, ExampleSeparator, ExamplePositionalLate, ExampleDoubleDash}

SeqsUpTo(S, lo, hi) == UNION {[1..n -> S] : n \in lo..hi}

\* Every argument vector the model passes to the parser: the empty vector
\* (argc = 0), and an execution path followed by arguments.
ArgVectors ==
    {<<>>}
      \cup {<<Prog>> \o v : v \in SeqsUpTo(Tokens, 0, MaxArgs)}
      \cup {<<Prog>> \o v : v \in SeqsUpTo(LongTokens, MaxArgs + 1, MaxLongArgs)}
      \cup Examples

(***************************************************************************)
(* Characters of a C string.                                               *)
(***************************************************************************)
\* arg[i], for i up to and including the terminator.
CharAt(arg, i) == IF i < Len(arg) THEN arg[i + 1] ELSE NUL

\* BeginsWithDash that wants a character after the dash: a lone "-" fails.
BeginsWithDash_NeedsName(arg) == CharAt(arg, 0) = "-" /\ CharAt(arg, 1) # NUL

\* BeginsWithDash that also passes the empty string.
BeginsWithDash_OrEmpty(arg) == CharAt(arg, 0) = "-" \/ CharAt(arg, 0) = NUL

\* arg[0] == '-'
BeginsWithDash(arg) == CharAt(arg, 0) = "-"

\* IsDoubleDash without the test of arg[2]: any token beginning "--" passes.
IsDoubleDash_NoTerminator(arg) == CharAt(arg, 1) = "-"

\* arg[1] == '-' && arg[2] == '\0', read only when arg[0] == '-'.
IsDoubleDash(arg) ==
    IF CharAt(arg, 1) = "-" THEN CharAt(arg, 2) = NUL ELSE FALSE


(***************************************************************************)
(* struct CliArray.  One record shape serves both builds: the heap build   *)
(* uses length, capacity and data; the no-heap build uses length, stack,   *)
(* data and next_unused.  The fields a build does not declare stay null.   *)
(***************************************************************************)
Lists == {"args", "cmd_options", "program_options"}

ZeroArray ==
    [length |-> 0, capacity |-> 0, data |-> NULL, stack |-> NULL, next_unused |-> NULL]

\* A CliArray that was declared and never assigned: its pointers are
\* indeterminate and its numeric fields hold some non-zero value (ZeroArray
\* is the case where they happen to be 0).
IndeterminateArray ==
    [length |-> USHRT_RANGE - 1, capacity |-> USHRT_RANGE - 1, data |-> Indeterminate,
     stack |-> Indeterminate, next_unused |-> Indeterminate]

NullToken == <<"null">>
IndeterminateToken == <<"indeterminate">>

\* struct Cli after `Cli cli = { 0 };`
ZeroCli ==
    [execfile |-> NullToken, args |-> ZeroArray, cmd_options |-> ZeroArray,
     program_options |-> ZeroArray]

\* struct Cli after `Cli cli;`
IndeterminateCli ==
    [execfile |-> IndeterminateToken, args |-> IndeterminateArray,
     cmd_options |-> IndeterminateArray, program_options |-> IndeterminateArray]

(***************************************************************************)
(* The heap: one block per list.                                           *)
(***************************************************************************)
BlockOf(name) ==
    CASE name = "args" -> 1
      [] name = "cmd_options" -> 2
      [] name = "program_options" -> 3

Blocks == {BlockOf(name) : name \in Lists}

NoBlock == [state |-> "unallocated", size |-> 0, elems |-> <<>>]

\* malloc(n * sizeof(item)): n slots, none written.
MallocBlock(n) == [state |-> "live", size |-> n, elems |-> [i \in 1..n |-> Unwritten]]

\* ReallocBlock that hands out a new block without copying the old slots.
ReallocBlock_NoCopy(block, n) == MallocBlock(n)

\* realloc(block, n * sizeof(item)): the first min(size, n) slots are kept.
ReallocBlock(block, n) ==
    [state |-> "live", size |-> n,
     elems |-> [i \in 1..n |-> IF i <= block.size THEN block.elems[i] ELSE Unwritten]]

(***************************************************************************)
(* cli_da_init and cli_da_append of the heap build.                        *)
(***************************************************************************)
\* cli_da_init(array, item_t, da_malloc); ok says whether malloc succeeded.
cli_da_init_owned(array, block, ok) ==
    [array EXCEPT !.capacity = CLI_DEFAULT_ARR_CAP,
                  !.length = 0,
                  !.data = IF ok THEN HeapPtr(block) ELSE NULL]

\* ++(array).length
da_next_length(array) == (array.length + 1) % USHRT_RANGE

\* ++(array).length > (array).capacity
da_overflows(array) == da_next_length(array) > array.capacity

\* (array).capacity *= 2
da_grown_capacity(array) == (array.capacity * 2) % USHRT_RANGE

\* da_write_index without the "- 1": the slot after the last is written.
da_write_index_OffByOne(array) == da_next_length(array)

\* The index written: (array).length - 1, computed in int after the increment.
da_write_index(array) == da_next_length(array) - 1

\* cli_da_append(array, item) on the block the array owns; ok says whether
\* realloc (when called) succeeded.  outcome is "ok", "assert" (CLI_ASSERT(0)
\* after a failed realloc) or "out_of_bounds" (the write falls outside the
\* block).
cli_da_append_owned(array, block, item, ok) ==
    LET grow == da_overflows(array)
        cap == IF grow THEN da_grown_capacity(array) ELSE array.capacity
        blk == IF grow THEN ReallocBlock(block, cap) ELSE block
        idx == da_write_index(array)
        arr == [array EXCEPT !.length = da_next_length(array), !.capacity = cap]
    IN  IF grow /\ ~ok
          THEN [array |-> [arr EXCEPT !.data = NULL], block |-> block,
                grew |-> TRUE, outcome |-> "assert"]
          ELSE IF idx < 0 \/ idx >= blk.size
                 THEN [array |-> arr, block |-> blk, grew |-> grow,
                       outcome |-> "out_of_bounds"]
                 ELSE [array |-> arr,
                       block |-> [blk EXCEPT !.elems[idx + 1] = item],
                       grew |-> grow, outcome |-> "ok"]

(***************************************************************************)
(* cli_da_init and cli_da_append of the no-heap build.                     *)
(***************************************************************************)
\* CLI_ASSERT((array).stack && "...")
da_init_noheap_asserts(array) == array.stack.kind # "null"

\* (array).data = CLI_INVALID_PTR
cli_da_init_noheap(array) == [array EXCEPT !.data = CLI_INVALID_PTR]

\* cli_da_append of the no-heap build that sets data at every append, not
\* only at the first.
cli_da_append_noheap_DataReset(array, arena, cursor, item) ==
    LET arr == [array EXCEPT !.data = StackPtr(cursor),
                             !.length = (array.length + 1) % USHRT_RANGE]
    IN  IF cursor >= Len(arena)
          THEN [array |-> arr, arena |-> arena, cursor |-> cursor + 1,
                outcome |-> "out_of_bounds"]
          ELSE [array |-> arr, arena |-> [arena EXCEPT ![cursor + 1] = item],
                cursor |-> cursor + 1, outcome |-> "ok"]

\* cli_da_append of the no-heap build that does not advance the cursor.
cli_da_append_noheap_NoAdvance(array, arena, cursor, item) ==
    LET data == IF array.data = CLI_INVALID_PTR THEN StackPtr(cursor) ELSE array.data
        arr == [array EXCEPT !.data = data, !.length = (array.length + 1) % USHRT_RANGE]
    IN  IF cursor >= Len(arena)
          THEN [array |-> arr, arena |-> arena, cursor |-> cursor,
                outcome |-> "out_of_bounds"]
          ELSE [array |-> arr, arena |-> [arena EXCEPT ![cursor + 1] = item],
                cursor |-> cursor, outcome |-> "ok"]

\* cli_da_append(array, item) with the cursor *next_unused at slot `cursor`
\* of the arena `arena`.
cli_da_append_noheap(array, arena, cursor, item) ==
    LET data == IF array.data = CLI_INVALID_PTR THEN StackPtr(cursor) ELSE array.data
        arr == [array EXCEPT !.data = data, !.length = (array.length + 1) % USHRT_RANGE]
    IN  IF cursor >= Len(arena)
          THEN [array |-> arr, arena |-> arena, cursor |-> cursor + 1,
                outcome |-> "out_of_bounds"]
          ELSE [array |-> arr, arena |-> [arena EXCEPT ![cursor + 1] = item],
                cursor |-> cursor + 1, outcome |-> "ok"]

(***************************************************************************)
(* The state.                                                              *)
(***************************************************************************)
VARIABLES
    noheap,         \* the build: TRUE when CLI_NOHEAP_IMPLEMENTATION is defined
    argv,           \* the caller's argument vector (argv[0 .. argc-1])
    entry,          \* the function the caller called, "none" before the call
    argc,           \* cli_parse's argc: the tokens not popped yet
    next,           \* cli_parse's argv: the index in argv of the next token
    cli,            \* the caller's struct Cli
    heap,           \* the heap blocks, by block number
    stack,          \* the caller's arena of the no-heap build
    unused,         \* cli_parse_noheap's cursor `unused`, as a slot offset
    is_cmd_option,  \* cli_parse's flag
    pc,             \* where the call is
    ret,            \* the value cli_parse returned, "none" before it returns
    report,         \* the arguments of the cli_printf_error call, if any
    stats           \* counts of malloc, realloc and cli_da_append executions

vars ==
    <<noheap, argv, entry, argc, next, cli, heap, stack, unused, is_cmd_option,
      pc, ret, report, stats>>

NoReport == [kind |-> "none", arg |-> NullToken, positional |-> NullToken]
NoStats == [mallocs |-> 0, reallocs |-> 0, appends |-> 0]

\* The caller declares the Cli (assigned or not) and, in the no-heap build,
\* an arena `stack[argc - 1]` whose slots are unwritten.
Init ==
    /\ noheap \in BOOLEAN
    /\ argv \in ArgVectors
    /\ entry = "none"
    /\ argc = Len(argv)
    /\ next = 1
    /\ cli \in {ZeroCli, IndeterminateCli}
    /\ heap = [b \in Blocks |-> NoBlock]
    /\ stack = IF noheap /\ Len(argv) > 1
                 THEN [i \in 1..(Len(argv) - 1) |-> Unwritten]
                 ELSE <<>>
    /\ unused = 0
    /\ is_cmd_option = FALSE
    /\ pc = "start"
    /\ ret = "none"
    /\ report = NoReport
    /\ stats = NoStats

(***************************************************************************)
(* Views of a list.                                                        *)
(***************************************************************************)
\* array.data[i], for 0 <= i, in the memory the pointer leads to.
ItemAt(array, i) ==
    CASE array.data.kind = "heap" -> heap[array.data.off].elems[i + 1]
      [] array.data.kind = "stack" -> stack[array.data.off + i + 1]
      [] OTHER -> Unwritten

\* The tokens of a list: data[0 .. length-1].
Items(array) == [i \in 1..array.length |-> ItemAt(array, i - 1)]

(***************************************************************************)
(* cli_parse_noheap: the preparation before it calls cli_parse.            *)
(***************************************************************************)
\* (struct CliArray) { .stack = stack, .next_unused = &unused }
PreparedArray ==
    [length |-> 0, capacity |-> 0, data |-> NULL, stack |-> StackPtr(0),
     next_unused |-> [kind |-> "unused", off |-> 0]]

cli_parse_noheap_prepare(c) ==
    [c EXCEPT !.args = PreparedArray, !.cmd_options = PreparedArray,
              !.program_options = PreparedArray]

\* The Cli cli_parse starts from, for the function the caller called.
EnteredCli(fn) == IF fn = "cli_parse_noheap" THEN cli_parse_noheap_prepare(cli) ELSE cli

\* The functions a caller of this build may call.
EntryPoints == IF noheap THEN {"cli_parse_noheap", "cli_parse"} ELSE {"cli_parse"}

(***************************************************************************)
(* cli_parse, up to the loop.                                              *)
(***************************************************************************)
\* SetExecfile that leaves execfile as it was.
SetExecfile_Forgotten(c, execfile) == c

\* cli->execfile = execfile;
SetExecfile(c, execfile) == [c EXCEPT !.execfile = execfile]

\* ExecOnlyCli without the zeroing of *cli.
ExecOnlyCli_NotZeroed(c, execfile) == [c EXCEPT !.execfile = execfile]

\* *cli = (struct Cli) { 0 }; cli->execfile = execfile;
ExecOnlyCli(c, execfile) == SetExecfile(ZeroCli, execfile)

\* cli_pop_argv on an empty vector: CLI_ASSERT(*argc) fails.
PopArgvAssert ==
    /\ pc = "start"
    /\ argc = 0
    /\ \E fn \in EntryPoints :
          /\ entry' = fn
          /\ cli' = EnteredCli(fn)
    /\ pc' = "aborted"
    /\ UNCHANGED <<noheap, argv, argc, next, heap, stack, unused, is_cmd_option,
                   ret, report, stats>>

\* argc == 1: only the execution path.
\*     *cli = (struct Cli) { 0 }; cli->execfile = execfile; return CliErrorOk;
ParseExecOnly ==
    /\ pc = "start"
    /\ argc = 1
    /\ \E fn \in EntryPoints : entry' = fn
    /\ argc' = argc - 1
    /\ next' = next + 1
    /\ cli' = ExecOnlyCli(cli, argv[next])
    /\ pc' = "returned"
    /\ ret' = CliErrorOk
    /\ UNCHANGED <<noheap, argv, heap, stack, unused, is_cmd_option, report, stats>>

\* The three cli_da_init calls of the heap build, in the order args,
\* cmd_options, program_options; a failed malloc returns CliErrorFatal and
\* leaves the later lists untouched.
InitOwnedLists(c, ok1, ok2, ok3) ==
    LET c1 == [c EXCEPT !.args = cli_da_init_owned(c.args, BlockOf("args"), ok1)]
        c2 == [c1 EXCEPT !.cmd_options =
                  cli_da_init_owned(c.cmd_options, BlockOf("cmd_options"), ok2)]
        c3 == [c2 EXCEPT !.program_options =
                  cli_da_init_owned(c.program_options, BlockOf("program_options"), ok3)]
    IN  IF ~ok1 THEN c1 ELSE IF ~ok2 THEN c2 ELSE c3

\* The number of malloc calls InitOwnedLists makes.
InitOwnedMallocs(ok1, ok2) == IF ~ok1 THEN 1 ELSE IF ~ok2 THEN 2 ELSE 3

ParseInitOwned ==
    /\ pc = "start"
    /\ ~noheap
    /\ argc > 1
    /\ entry' = "cli_parse"
    /\ argc' = argc - 1
    /\ next' = next + 1
    /\ \E ok1, ok2, ok3 \in BOOLEAN :
          /\ ok1 \/ (ok2 /\ ok3)
          /\ ok2 \/ ok3
          /\ cli' = InitOwnedLists(SetExecfile(cli, argv[next]), ok1, ok2, ok3)
          /\ heap' = [b \in Blocks |->
                        IF \/ b = BlockOf("args") /\ ok1
                           \/ b = BlockOf("cmd_options") /\ ok1 /\ ok2
                           \/ b = BlockOf("program_options") /\ ok1 /\ ok2 /\ ok3
                          THEN MallocBlock(CLI_DEFAULT_ARR_CAP)
                          ELSE heap[b]]
          /\ stats' = [stats EXCEPT !.mallocs = @ + InitOwnedMallocs(ok1, ok2)]
          /\ IF ok1 /\ ok2 /\ ok3
               THEN pc' = "loop" /\ ret' = ret
               ELSE pc' = "returned" /\ ret' = CliErrorFatal
    /\ is_cmd_option' = FALSE
    /\ UNCHANGED <<noheap, argv, stack, unused, report>>

\* The three cli_da_init calls of the no-heap build on lists that
\* cli_parse_noheap prepared.
InitNoheapLists(c) ==
    [c EXCEPT !.args = cli_da_init_noheap(c.args),
              !.cmd_options = cli_da_init_noheap(c.cmd_options),
              !.program_options = cli_da_init_noheap(c.program_options)]

ParseInitNoheap ==
    /\ pc = "start"
    /\ noheap
    /\ argc > 1
    /\ entry' = "cli_parse_noheap"
    /\ da_init_noheap_asserts(EnteredCli("cli_parse_noheap").args)
    /\ argc' = argc - 1
    /\ next' = next + 1
    /\ cli' = InitNoheapLists(SetExecfile(EnteredCli("cli_parse_noheap"), argv[next]))
    /\ unused' = 0
    /\ is_cmd_option' = FALSE
    /\ pc' = "loop"
    /\ UNCHANGED <<noheap, argv, heap, stack, ret, report, stats>>

\* cli_parse called directly in the no-heap build on a Cli whose lists have a
\* null stack: the CLI_ASSERT of the first cli_da_init fails.
ParseDirectNoheap ==
    /\ pc = "start"
    /\ noheap
    /\ argc > 1
    /\ cli = ZeroCli
    /\ ~da_init_noheap_asserts(EnteredCli("cli_parse").args)
    /\ entry' = "cli_parse"
    /\ argc' = argc - 1
    /\ next' = next + 1
    /\ cli' = SetExecfile(cli, argv[next])
    /\ pc' = "aborted"
    /\ UNCHANGED <<noheap, argv, heap, stack, unused, is_cmd_option, ret, report, stats>>

(***************************************************************************)
(* The loop of cli_parse.                                                  *)
(***************************************************************************)
\* option_array with the two lists exchanged.
option_array_Swapped(flag) == IF flag THEN "program_options" ELSE "cmd_options"

\* is_cmd_option ? &cli->cmd_options : &cli->program_options
option_array(flag) == IF flag THEN "cmd_options" ELSE "program_options"

\* DoubleDashRefused that refuses nothing.
DoubleDashRefused_Never(c) == FALSE

\* if (cli->args.length > 0): a "--" after a positional is refused.
DoubleDashRefused(c) == c.args.length > 0

\* PositionalRefused that refuses nothing.
PositionalRefused_Never(c) == FALSE

\* if (cli->cmd_options.length > 0): a positional after a command option is
\* refused.
PositionalRefused(c) == c.cmd_options.length > 0

\* What one iteration does with the token arg: "separator" (accepted "--"),
\* "double_dash_error", "option", "positional" or "positional_error".
Classify(c, arg) ==
    IF BeginsWithDash(arg)
      THEN IF IsDoubleDash(arg)
             THEN IF DoubleDashRefused(c) THEN "double_dash_error" ELSE "separator"
             ELSE "option"
      ELSE IF PositionalRefused(c) THEN "positional_error" ELSE "positional"

\* The list the token is appended to, for the two appending cases.
Destination(kind, flag) == IF kind = "option" THEN option_array(flag) ELSE "args"

\* cli_da_append(cli-><name>, arg) in the build at hand: the new Cli, heap,
\* arena and cursor, and the outcome of the append.
AppendTo(name, arg, ok) ==
    IF noheap
      THEN LET r == cli_da_append_noheap(cli[name], stack, unused, arg)
           IN  [cli |-> [cli EXCEPT ![name] = r.array], heap |-> heap,
                stack |-> r.arena, unused |-> r.cursor, grew |-> FALSE,
                outcome |-> r.outcome]
      ELSE LET b == cli[name].data.off
               r == cli_da_append_owned(cli[name], heap[b], arg, ok)
           IN  [cli |-> [cli EXCEPT ![name] = r.array],
                heap |-> [heap EXCEPT ![b] = r.block],
                stack |-> stack, unused |-> unused, grew |-> r.grew,
                outcome |-> r.outcome]

\* Where the call is after an append with the given outcome.
AfterAppend(outcome) ==
    CASE outcome = "ok" -> "loop"
      [] outcome = "assert" -> "aborted"
      [] outcome = "out_of_bounds" -> "out_of_bounds"

\* An accepted "--": nothing is stored, the flag is set.
ParseSeparator ==
    /\ pc = "loop"
    /\ argc > 0
    /\ Classify(cli, argv[next]) = "separator"
    /\ argc' = argc - 1
    /\ next' = next + 1
    /\ is_cmd_option' = TRUE
    /\ UNCHANGED <<noheap, argv, entry, cli, heap, stack, unused, pc, ret, report, stats>>

\* A "--" after a positional: the error names it and the last positional.
ParseDoubleDashError ==
    /\ pc = "loop"
    /\ argc > 0
    /\ Classify(cli, argv[next]) = "double_dash_error"
    /\ argc' = argc - 1
    /\ next' = next + 1
    /\ report' = [kind |-> "DoubleDashAfterPositional", arg |-> argv[next],
                  positional |-> ItemAt(cli.args, cli.args.length - 1)]
    /\ pc' = "returned"
    /\ ret' = CliErrorUser
    /\ UNCHANGED <<noheap, argv, entry, cli, heap, stack, unused, is_cmd_option, stats>>

\* A positional after a command option: the error names it.
ParsePositionalError ==
    /\ pc = "loop"
    /\ argc > 0
    /\ Classify(cli, argv[next]) = "positional_error"
    /\ argc' = argc - 1
    /\ next' = next + 1
    /\ report' = [kind |-> "PositionalAfterCmdOption", arg |-> argv[next],
                  positional |-> NullToken]
    /\ pc' = "returned"
    /\ ret' = CliErrorUser
    /\ UNCHANGED <<noheap, argv, entry, cli, heap, stack, unused, is_cmd_option, stats>>

\* An option or a positional: appended to its list; a positional sets the
\* flag.  In the heap build the append may call realloc, which may fail.
ParseAppend ==
    /\ pc = "loop"
    /\ argc > 0
    /\ Classify(cli, argv[next]) \in {"option", "positional"}
    /\ argc' = argc - 1
    /\ next' = next + 1
    /\ LET kind == Classify(cli, argv[next])
           name == Destination(kind, is_cmd_option)
       IN  /\ \E ok \in (IF ~noheap /\ da_overflows(cli[name]) THEN BOOLEAN ELSE {TRUE}) :
                LET r == AppendTo(name, argv[next], ok)
                IN  /\ cli' = r.cli
                    /\ heap' = r.heap
                    /\ stack' = r.stack
                    /\ unused' = r.unused
                    /\ stats' = [stats EXCEPT
                                   !.appends = @ + 1,
                                   !.reallocs = IF r.grew THEN @ + 1 ELSE @]
                    /\ pc' = AfterAppend(r.outcome)
                    /\ is_cmd_option' =
                         IF r.outcome = "ok" /\ kind = "positional" THEN TRUE ELSE is_cmd_option
    /\ UNCHANGED <<noheap, argv, entry, ret, report>>

\* while (argc) ends: return CliErrorOk.
ParseReturnOk ==
    /\ pc = "loop"
    /\ argc = 0
    /\ pc' = "returned"
    /\ ret' = CliErrorOk
    /\ UNCHANGED <<noheap, argv, entry, argc, next, cli, heap, stack, unused,
                   is_cmd_option, report, stats>>

(***************************************************************************)
(* cli_free.                                                               *)
(***************************************************************************)
\* CLI_FREE(p) on the heap: a live block is freed; free(NULL) does nothing.
FreeIn(h, p) ==
    IF p.kind = "heap" /\ h[p.off].state = "live"
      THEN [h EXCEPT ![p.off].state = "freed"]
      ELSE h

\* CLI_FREE(p) is defined: p is null or a live block.
FreeDefined(h, p) == p.kind = "null" \/ (p.kind = "heap" /\ h[p.off].state = "live")

\* The heap build frees the three buffers in turn; the no-heap build does
\* nothing.  Freeing a pointer that is neither null nor a live block is
\* undefined: the call ends in "invalid_free".
cli_free ==
    /\ pc = "returned"
    /\ IF noheap
         THEN pc' = "freed" /\ heap' = heap
         ELSE LET h1 == FreeIn(heap, cli.args.data)
                  h2 == FreeIn(h1, cli.cmd_options.data)
                  h3 == FreeIn(h2, cli.program_options.data)
              IN  IF /\ FreeDefined(heap, cli.args.data)
                     /\ FreeDefined(h1, cli.cmd_options.data)
                     /\ FreeDefined(h2, cli.program_options.data)
                    THEN pc' = "freed" /\ heap' = h3
                    ELSE pc' = "invalid_free" /\ heap' = heap
    /\ UNCHANGED <<noheap, argv, entry, argc, next, cli, stack, unused, is_cmd_option,
                   ret, report, stats>>

Next ==
    \/ PopArgvAssert
    \/ ParseExecOnly
    \/ ParseInitOwned
    \/ ParseInitNoheap
    \/ ParseDirectNoheap
    \/ ParseSeparator
    \/ ParseDoubleDashError
    \/ ParsePositionalError
    \/ ParseAppend
    \/ ParseReturnOk
    \/ cli_free

Spec == Init /\ [][Next]_vars

(***************************************************************************)
(* Growth of one heap list: cli_parse of the heap build on an execution    *)
(* path followed by positional tokens only, so that every token is         *)
(* appended to args.  The state is that of the loop; of argv it keeps the  *)
(* execution path only and of the args block the size, not the tokens.     *)
(* realloc succeeds.  A write outside the block ends the run in            *)
(* "out_of_bounds".                                                        *)
(***************************************************************************)
GrowInit ==
    /\ noheap = FALSE
    /\ argv = <<Prog>>
    /\ entry = "cli_parse"
    /\ argc = 0
    /\ next = 2
    /\ cli = InitOwnedLists(SetExecfile(IndeterminateCli, Prog), TRUE, TRUE, TRUE)
    /\ heap = [b \in Blocks |->
                 [state |-> "live", size |-> CLI_DEFAULT_ARR_CAP, elems |-> <<>>]]
    /\ stack = <<>>
    /\ unused = 0
    /\ is_cmd_option = FALSE
    /\ pc = "grow"
    /\ ret = "none"
    /\ report = NoReport
    /\ stats = [NoStats EXCEPT !.mallocs = InitOwnedMallocs(TRUE, TRUE)]

\* cli_da_append(cli->args, arg) for one more positional token.
GrowAppend ==
    /\ pc = "grow"
    /\ stats.appends < MaxAppends
    /\ LET array == cli.args
           b == array.data.off
           grow == da_overflows(array)
           cap == IF grow THEN da_grown_capacity(array) ELSE array.capacity
           idx == da_write_index(array)
       IN  /\ cli' = [cli EXCEPT !.args.length = da_next_length(array),
                                 !.args.capacity = cap]
           /\ heap' = [heap EXCEPT ![b].size = cap]
           /\ stats' = [stats EXCEPT !.appends = @ + 1,
                                     !.reallocs = IF grow THEN @ + 1 ELSE @]
           /\ pc' = IF idx < 0 \/ idx >= cap THEN "out_of_bounds" ELSE "grow"
    /\ is_cmd_option' = TRUE
    /\ UNCHANGED <<noheap, argv, entry, argc, next, stack, unused, ret, report>>

GrowNext == GrowAppend

GrowSpec == GrowInit /\ [][GrowNext]_vars

(***************************************************************************)
(* The grammar as the specification words it, for stating the claims.      *)
(***************************************************************************)
\* A token that begins with '-'.
DashPrefixed(t) == Len(t) > 0 /\ t[1] = "-"

\* A dash-prefixed token other than the separator "--".
OptionToken(t) == DashPrefixed(t) /\ t # DashDash

\* A token that does not begin with '-'.
PositionalToken(t) == ~DashPrefixed(t)

NotSeparator(t) == t # DashDash

\* The index in ts of the first positional or "--", Len(ts) + 1 if none.
FirstBoundary(ts) ==
    LET B == {i \in 1..Len(ts) : PositionalToken(ts[i]) \/ ts[i] = DashDash}
    IN  IF B = {} THEN Len(ts) + 1 ELSE CHOOSE i \in B : \A j \in B : i <= j

ExpectedProgramOptions(ts) == SelectSeq(SubSeq(ts, 1, FirstBoundary(ts) - 1), OptionToken)
ExpectedArgs(ts) == SelectSeq(ts, PositionalToken)
ExpectedCmdOptions(ts) == SelectSeq(SubSeq(ts, FirstBoundary(ts) + 1, Len(ts)), OptionToken)

\* The tokens the loop has popped, and those it has popped and not refused.
Popped == SubSeq(argv, 2, next - 1)
Classified == IF ret = CliErrorUser THEN SubSeq(argv, 2, next - 2) ELSE Popped

\* The three lists hold tokens: the pass is running or has returned a
\* result other than CliErrorFatal.
ListsValid == pc \in {"loop", "returned"} /\ ret # CliErrorFatal

ProgramOptions == Items(cli.program_options)
Args == Items(cli.args)
CmdOptions == Items(cli.cmd_options)

(***************************************************************************)
(* The claims.                                                             *)
(***************************************************************************)
\* C1: whenever cli_parse returns, with any tier and in either build, on a
\* vector of at least one token, cli.execfile is the first token argv[0].
C1_ExecfileIsFirstToken ==
    (pc = "returned" /\ Len(argv) >= 1) => cli.execfile = argv[1]

C1_Witness ==
    /\ pc = "returned"
    /\ ret = CliErrorFatal
    /\ Len(argv) > 1
    /\ cli.execfile = argv[1]

\* C2: on a vector of exactly one token cli_parse returns CliErrorOk with
\* the three lists of length 0, having called neither malloc nor realloc and
\* having appended nothing.
C2_ExecOnlyIsOkAndEmpty ==
    (pc = "returned" /\ Len(argv) = 1) =>
        /\ ret = CliErrorOk
        /\ cli.args.length = 0
        /\ cli.cmd_options.length = 0
        /\ cli.program_options.length = 0
        /\ stats = NoStats
        /\ heap = [b \in Blocks |-> NoBlock]

C2_Witness ==
    /\ pc = "returned"
    /\ Len(argv) = 1
    /\ ret = CliErrorOk
    /\ cli.args.length = 0
    /\ entry = "cli_parse_noheap"

\* C3: at every point of a pass program_options holds, in input order,
\* exactly the dash-prefixed tokens other than "--" that come before the
\* first positional and before the first "--"; [prog, -v, --verbose] returns
\* CliErrorOk (unless a malloc failed) with program_options = [-v, --verbose]
\* and the other two lists empty.
C3_ProgramOptionsBeforeBoundary ==
    ListsValid =>
        /\ ProgramOptions = ExpectedProgramOptions(Popped)
        /\ (argv = ExampleOptions /\ pc = "returned") =>
              /\ ret = CliErrorOk
              /\ ProgramOptions = <<T_v, T_verbose>>
              /\ Args = <<>>
              /\ CmdOptions = <<>>

C3_Witness ==
    /\ pc = "returned"
    /\ ret = CliErrorOk
    /\ cli.program_options.length = 2
    /\ cli.args.length = 1
    /\ cli.cmd_options.length = 1
    /\ ProgramOptions = ExpectedProgramOptions(Popped)

\* C4: a "--" reached while no positional is recorded is accepted and stored
\* nowhere, and the dash-prefixed tokens other than "--" after it go to
\* cmd_options in input order; no list ever contains "--";
\* [prog, --, --flag] returns CliErrorOk (unless a malloc failed) with
\* cmd_options = [--flag] and the other two lists empty.
C4_SeparatorNotStored ==
    /\ [](ListsValid =>
            /\ \A name \in Lists : \A i \in 1..cli[name].length :
                   ItemAt(cli[name], i - 1) # DashDash
            /\ CmdOptions = ExpectedCmdOptions(Classified)
            /\ (argv = ExampleSeparator /\ pc = "returned") =>
                  /\ ret = CliErrorOk
                  /\ CmdOptions = <<T_flag>>
                  /\ Args = <<>>
                  /\ ProgramOptions = <<>>)
    /\ [][(pc = "loop" /\ argc > 0 /\ argv[next] = DashDash /\ cli.args.length = 0) =>
            /\ pc' = "loop"
            /\ is_cmd_option'
            /\ cli' = cli
            /\ heap' = heap
            /\ stack' = stack
            /\ unused' = unused]_vars

C4_Witness ==
    /\ pc = "returned"
    /\ ret = CliErrorOk
    /\ Len(argv) > 3
    /\ argv[2] = OptA
    /\ argv[3] = DashDash
    /\ cli.program_options.length = 1
    /\ cli.cmd_options.length = Len(argv) - 3
    /\ cli.args.length = 0

\* C5: a token that does not begin with '-', reached while cmd_options is
\* not empty, makes cli_parse return CliErrorUser with the "positional after
\* command option" error naming that token, and is not appended; args never
\* changes once cmd_options is not empty; [prog, build, --release, -j, 4]
\* fails on 4 with args = [build] and cmd_options = [--release, -j].
C5_PositionalAfterCmdOption ==
    /\ [][(pc = "loop" /\ argc > 0 /\ PositionalToken(argv[next])
             /\ cli.cmd_options.length > 0) =>
            /\ pc' = "returned"
            /\ ret' = CliErrorUser
            /\ report' = [kind |-> "PositionalAfterCmdOption", arg |-> argv[next],
                          positional |-> NullToken]
            /\ cli' = cli
            /\ heap' = heap
            /\ stack' = stack
            /\ unused' = unused]_vars
    /\ [][(ListsValid /\ ListsValid' /\ cli.cmd_options.length > 0) =>
            (Args' = Args /\ cli'.args = cli.args)]_vars
    /\ []((argv = ExamplePositionalLate /\ pc = "returned" /\ ret # CliErrorFatal) =>
            /\ ret = CliErrorUser
            /\ report.kind = "PositionalAfterCmdOption"
            /\ report.arg = T_4
            /\ Args = <<T_build>>
            /\ CmdOptions = <<T_release, T_j>>)

C5_Witness ==
    /\ pc = "returned"
    /\ ret = CliErrorUser
    /\ report.kind = "PositionalAfterCmdOption"
    /\ report.arg = T_4
    /\ Args = <<T_build>>
    /\ CmdOptions = <<T_release, T_j>>

\* C6: a "--" is refused with CliErrorUser (the "double dash after
\* positional" error naming "--" and the last recorded positional) exactly
\* when args is not empty as it is reached, and accepted otherwise; no
\* separator is ever accepted after a positional; [prog, a, --, b] fails at
\* "--" with args = [a].
C6_DoubleDashAfterPositional ==
    /\ [][(pc = "loop" /\ argc > 0 /\ argv[next] = DashDash) =>
            IF cli.args.length > 0
              THEN /\ pc' = "returned"
                   /\ ret' = CliErrorUser
                   /\ report' = [kind |-> "DoubleDashAfterPositional", arg |-> DashDash,
                                 positional |-> Args[cli.args.length]]
                   /\ cli' = cli
              ELSE /\ pc' = "loop"
                   /\ ret' = ret
                   /\ report' = report
                   /\ is_cmd_option']_vars
    /\ [](ListsValid =>
            \A i, j \in 1..Len(Classified) :
                i < j => ~(PositionalToken(Classified[i]) /\ Classified[j] = DashDash))
    /\ []((argv = ExampleDoubleDash /\ pc = "returned" /\ ret # CliErrorFatal) =>
            /\ ret = CliErrorUser
            /\ report.kind = "DoubleDashAfterPositional"
            /\ report.arg = DashDash
            /\ report.positional = PosA
            /\ next = 4
            /\ Args = <<PosA>>)

C6_Witness ==
    /\ pc = "returned"
    /\ ret = CliErrorUser
    /\ report.kind = "DoubleDashAfterPositional"
    /\ cli.args.length = 2
    /\ report.positional = Args[2]
    /\ argv[2] = DashDash

\* The number of occurrences of t in the sequence ts.
Count(t, ts) == Cardinality({i \in 1..Len(ts) : ts[i] = t})

\* program_options ++ args ++ cmd_options
Stored == ProgramOptions \o Args \o CmdOptions

\* argv[1..] with every "--" removed.
ArgumentsWithoutSeparators == SelectSeq(SubSeq(argv, 2, Len(argv)), NotSeparator)

\* C7: when cli_parse returns CliErrorOk, program_options ++ args ++
\* cmd_options has the same tokens with the same multiplicities as argv[1..]
\* with every "--" removed.
C7_StoredIsPermutation ==
    (pc = "returned" /\ ret = CliErrorOk) =>
        /\ Len(Stored) = Len(ArgumentsWithoutSeparators)
        /\ \A i \in 1..Len(ArgumentsWithoutSeparators) :
              Count(ArgumentsWithoutSeparators[i], Stored)
                = Count(ArgumentsWithoutSeparators[i], ArgumentsWithoutSeparators)

C7_Witness ==
    /\ pc = "returned"
    /\ ret = CliErrorOk
    /\ ~noheap
    /\ stats.reallocs > 0
    /\ cli.program_options.length > 0
    /\ Count(DashDash, argv) = 0
    /\ Len(Stored) = Len(argv) - 1

\* C8: when cli_parse returns CliErrorUser at token k, the pass stopped
\* there: the lists hold the classification of the tokens before k, the
\* tokens from k on are in no list and are not popped, and the step that
\* returns the error changes no list.
C8_UserErrorKeepsPrefix ==
    /\ []((pc = "returned" /\ ret = CliErrorUser) =>
            /\ ProgramOptions = ExpectedProgramOptions(Classified)
            /\ Args = ExpectedArgs(Classified)
            /\ CmdOptions = ExpectedCmdOptions(Classified)
            /\ Len(Stored) = Len(SelectSeq(Classified, NotSeparator))
            /\ report.arg = argv[next - 1]
            /\ argc = Len(argv) - (next - 1))
    /\ [][(pc = "loop" /\ ret' = CliErrorUser) =>
            /\ cli' = cli
            /\ heap' = heap
            /\ stack' = stack
            /\ ProgramOptions' = ProgramOptions
            /\ Args' = Args
            /\ CmdOptions' = CmdOptions]_vars

C8_Witness ==
    /\ pc = "returned"
    /\ ret = CliErrorUser
    /\ argc > 0
    /\ cli.program_options.length > 0
    /\ cli.args.length > 0
    /\ cli.cmd_options.length > 0
    /\ Args = ExpectedArgs(Classified)

RECURSIVE Pow2(_)
Pow2(k) == IF k = 0 THEN 1 ELSE 2 * Pow2(k - 1)

\* ceil(log2(n / c)) as a number of reallocations: the least k >= 0 with
\* c * 2^k >= n (the closed form is negative for n <= c / 2, where no
\* number of reallocations equals it; it is taken as 0 there).
CeilLog2Ratio(n, c) ==
    CHOOSE k \in 0..n : c * Pow2(k) >= n /\ \A j \in 0..(k - 1) : c * Pow2(j) < n

\* C9: in the heap build, after N >= 1 appends to a list created empty with
\* capacity CLI_DEFAULT_ARR_CAP, the reallocations are exactly
\* ceil(log2(N / CLI_DEFAULT_ARR_CAP)), each doubled the capacity, and the
\* capacity is at least N.
C9_OwnedGrowth ==
    (pc \in {"grow", "out_of_bounds"} /\ stats.appends >= 1) =>
        /\ stats.reallocs = CeilLog2Ratio(stats.appends, CLI_DEFAULT_ARR_CAP)
        /\ cli.args.capacity = CLI_DEFAULT_ARR_CAP * Pow2(stats.reallocs)
        /\ cli.args.capacity >= stats.appends
        /\ cli.args.length = stats.appends

StorageFailed ==
    /\ ~noheap
    /\ entry = "cli_parse"
    /\ Len(argv) > 1
    /\ \E name \in Lists : cli[name].data = NULL

\* C11: in the heap build every failure to obtain or to grow a buffer during
\* cli_parse (a malloc of one of the three lists, or a realloc in an append)
\* makes cli_parse return CliErrorFatal, never CliErrorOk or CliErrorUser.
C11_StorageFailureIsFatal ==
    StorageFailed => (pc \in {"returned", "freed", "invalid_free"} /\ ret = CliErrorFatal)

\* No positional and no "--" has been popped: the pass is in program scope.
InProgramScope == FirstBoundary(Popped) > Len(Popped)

\* C12: the token "-" is never a separator: it is appended to
\* program_options in program scope and to cmd_options otherwise, produces
\* no error, and leaves the scope flag as it was.
C12_SingleDashIsOption ==
    [][(pc = "loop" /\ argc > 0 /\ argv[next] = Dash) =>
          /\ pc' \in {"loop", "aborted"}
          /\ ret' = ret
          /\ report' = report
          /\ is_cmd_option' = is_cmd_option
          /\ pc' = "loop" =>
                /\ Args' = Args
                /\ IF InProgramScope
                     THEN /\ ProgramOptions' = Append(ProgramOptions, Dash)
                          /\ CmdOptions' = CmdOptions
                     ELSE /\ CmdOptions' = Append(CmdOptions, Dash)
                          /\ ProgramOptions' = ProgramOptions]_vars

C12_Witness ==
    /\ pc = "returned"
    /\ ret = CliErrorOk
    /\ ProgramOptions = <<Dash>>
    /\ Args = <<PosA>>
    /\ CmdOptions = <<Dash, OptA>>

\* C13: the empty token is a positional: with cmd_options empty it is
\* appended to args and the pass switches to subcommand scope; with
\* cmd_options not empty cli_parse returns CliErrorUser with the "positional
\* after command option" error naming it.
C13_EmptyTokenIsPositional ==
    [][(pc = "loop" /\ argc > 0 /\ argv[next] = Empty) =>
          IF cli.cmd_options.length > 0
            THEN /\ pc' = "returned"
                 /\ ret' = CliErrorUser
                 /\ report'.kind = "PositionalAfterCmdOption"
                 /\ report'.arg = Empty
                 /\ cli' = cli
            ELSE /\ pc' \in {"loop", "aborted"}
                 /\ ret' = ret
                 /\ report' = report
                 /\ pc' = "loop" =>
                       /\ Args' = Append(Args, Empty)
                       /\ is_cmd_option'
                       /\ ProgramOptions' = ProgramOptions
                       /\ CmdOptions' = CmdOptions]_vars

C13_Witness ==
    /\ pc = "returned"
    /\ ret = CliErrorOk
    /\ ProgramOptions = <<OptA>>
    /\ Args = <<Empty>>
    /\ CmdOptions = <<OptA>>

\* The token ts[k] is refused after the tokens before it: a "--" after a
\* positional, or a positional after a command option.
Refused(ts, k) ==
    \/ ts[k] = DashDash /\ ExpectedArgs(SubSeq(ts, 1, k - 1)) # <<>>
    \/ PositionalToken(ts[k]) /\ ExpectedCmdOptions(SubSeq(ts, 1, k - 1)) # <<>>

\* The index of the first refused token of ts, 0 if none is refused.
FirstRefused(ts) ==
    LET R == {k \in 1..Len(ts) : Refused(ts, k)}
    IN  IF R = {} THEN 0 ELSE CHOOSE k \in R : \A j \in R : k <= j

\* What the grammar gives for the vector v, whatever stores the lists: the
\* tier, the execution path and the three lists at return.
Outcome(v) ==
    LET ts == SubSeq(v, 2, Len(v))
        k == FirstRefused(ts)
        pre == IF k = 0 THEN ts ELSE SubSeq(ts, 1, k - 1)
    IN  [tier |-> IF k = 0 THEN CliErrorOk ELSE CliErrorUser,
         execfile |-> v[1],
         args |-> ExpectedArgs(pre),
         cmd_options |-> ExpectedCmdOptions(pre),
         program_options |-> ExpectedProgramOptions(pre)]

\* What the call returned and left in the caller's Cli.
Observed ==
    [tier |-> ret, execfile |-> cli.execfile, args |-> Args, cmd_options |-> CmdOptions,
     program_options |-> ProgramOptions]

\* The documented entry of the build at hand.
DocumentedEntry == IF noheap THEN "cli_parse_noheap" ELSE "cli_parse"

\* C14: the two builds are interchangeable: on every vector cli_parse of the
\* heap build (when no allocation fails) and cli_parse_noheap with an arena
\* of argc - 1 slots return the same tier and execfile and leave the same
\* tokens in the same order in each list.  Both return Outcome(argv), which
\* does not depend on the build.
C14_BuildsAgree ==
    (pc = "returned" /\ ret # CliErrorFatal /\ entry = DocumentedEntry) =>
        /\ Observed = Outcome(argv)
        /\ cli.args.length = Len(Outcome(argv).args)
        /\ cli.cmd_options.length = Len(Outcome(argv).cmd_options)
        /\ cli.program_options.length = Len(Outcome(argv).program_options)

C14_Witness ==
    /\ pc = "returned"
    /\ ~noheap
    /\ ret = CliErrorUser
    /\ stats.reallocs > 0
    /\ cli.args.length > 0
    /\ cli.cmd_options.length > 0
    /\ Observed = Outcome(argv)

\* C15: in the no-heap build a direct call of cli_parse on a Cli whose lists
\* cli_parse_noheap did not prepare (their stack is null) fails through
\* CLI_ASSERT instead of returning, for every argc >= 1.
C15_DirectCallAsserts ==
    [][(pc = "start" /\ noheap /\ argc >= 1 /\ cli = ZeroCli /\ entry' = "cli_parse") =>
          pc' = "aborted"]_vars

\* A pass of cli_parse_noheap is running or has returned.
NoheapPass ==
    /\ noheap
    /\ entry = "cli_parse_noheap"
    /\ pc \in {"loop", "returned"}
    /\ Len(argv) > 1

\* The arena slots (as offsets) of a list: data[0 .. length-1].
SlotsOf(array) == {array.data.off + i : i \in 0..(array.length - 1)}

\* C16: in the no-heap build, at every point of a pass and at return, each
\* list that is not empty holds its tokens, in capture order, in the
\* consecutive arena slots data[0 .. length-1], all of them written, and no
\* slot belongs to two lists.
C16_ListsContiguous ==
    NoheapPass =>
        /\ \A name \in Lists :
              cli[name].length > 0 =>
                  /\ cli[name].data.kind = "stack"
                  /\ cli[name].data.off + cli[name].length <= unused
        /\ unused <= Len(stack)
        /\ ProgramOptions = ExpectedProgramOptions(Classified)
        /\ Args = ExpectedArgs(Classified)
        /\ CmdOptions = ExpectedCmdOptions(Classified)
        /\ \A n1, n2 \in Lists :
              n1 # n2 => SlotsOf(cli[n1]) \cap SlotsOf(cli[n2]) = {}

C16_Witness ==
    /\ NoheapPass
    /\ pc = "returned"
    /\ cli.program_options.length = 2
    /\ cli.args.length = 1
    /\ cli.cmd_options.length = 1
    /\ cli.program_options.data = StackPtr(0)
    /\ cli.args.data = StackPtr(2)
    /\ cli.cmd_options.data = StackPtr(3)

\* C17: when cli_parse returns CliErrorOk, program_options ++ args ++
\* cmd_options equals, element for element and in the input's order, argv[1..]
\* with every "--" removed.
C17_StoredIsInputOrder ==
    (pc = "returned" /\ ret = CliErrorOk /\ Len(argv) >= 1) =>
        Stored = ArgumentsWithoutSeparators

C17_Witness ==
    /\ pc = "returned"
    /\ ret = CliErrorOk
    /\ Len(argv) = 5
    /\ argv[2] = OptA
    /\ argv[3] = DashDash
    /\ argv[4] = PosA
    /\ argv[5] = LongA
    /\ Stored = <<OptA, PosA, LongA>>

\* C18: in the heap build, after cli_parse returns with any tier, the buffer
\* of each of the three lists is a live allocation or null, never an
\* uninitialised value, so cli_free releases every live buffer exactly once
\* and frees nothing else.
C18_BuffersLiveOrNull ==
    /\ (~noheap /\ pc = "returned") =>
          \A name \in Lists : FreeDefined(heap, cli[name].data)
    /\ ~noheap => pc # "invalid_free"
    /\ (~noheap /\ pc = "freed") =>
          \A b \in Blocks : heap[b].state # "live"

\* C19: in the heap build, with length and capacity kept modulo 2^16, every
\* append writes inside the buffer: the index length - 1 written satisfies
\* 0 <= length - 1 < capacity and lies within the allocated block, for every
\* number of appends.
C19_WritesInBounds ==
    (~noheap /\ stats.appends >= 1) =>
        /\ pc # "out_of_bounds"
        /\ 0 <= cli.args.length - 1
        /\ cli.args.length - 1 < cli.args.capacity
        /\ cli.args.length - 1 < heap[cli.args.data.off].size

\* The data reference of a no-heap list is the sentinel exactly while the
\* list is empty.
SentinelWhileEmpty(c) ==
    \A name \in Lists : (c[name].data = CLI_INVALID_PTR) <=> (c[name].length = 0)

====
